---------------------------- MODULE Spec2Model ----------------------------
(***************************************************************************)
(* City facts resolver of mcp_agent/agent.py: the module-level start-up    *)
(* sequence (credential check, tracer, maps tool parameters, agent) and    *)
(* the two tool functions get_weather and get_current_time.                *)
(*                                                                         *)
(* A Python str is a sequence of one-character strings; a Python dict is   *)
(* a function; an optional value is None (the empty sequence) or           *)
(* Some(x) (a one-element sequence).                                       *)
(***************************************************************************)
EXTENDS Integers, Sequences, FiniteSets, TLC

None == << >>
Some(x) == << x >>

\* ------------------------------------------------------------- bounds

\* Largest number of letters of a word written in upper case in an input.
MaxCaps == 2
\* Largest number of space characters inserted into a word in an input.
MaxSpaces == 2
\* Number of clock steps after the first reading of a day.
MaxTicks == 3

\* ------------------------------------------------------- str methods

\* The characters of U+0000..U+00FF that str.lower() changes, and what it
\* makes of each: the ASCII capitals and the Latin-1 capitals (U+00C0..U+00DE
\* without the multiplication sign U+00D7).
UpperCaseLetters == <<"A", "B", "C", "D", "E", "F", "G", "H", "I", "J", "K", "L", "M", "N", "O", "P", "Q", "R", "S", "T", "U", "V", "W", "X", "Y", "Z", "À", "Á", "Â", "Ã", "Ä", "Å", "Æ", "Ç", "È", "É", "Ê", "Ë", "Ì", "Í", "Î", "Ï", "Ð", "Ñ", "Ò", "Ó", "Ô", "Õ", "Ö", "Ø", "Ù", "Ú", "Û", "Ü", "Ý", "Þ">>
LowerCaseLetters == <<"a", "b", "c", "d", "e", "f", "g", "h", "i", "j", "k", "l", "m", "n", "o", "p", "q", "r", "s", "t", "u", "v", "w", "x", "y", "z", "à", "á", "â", "ã", "ä", "å", "æ", "ç", "è", "é", "ê", "ë", "ì", "í", "î", "ï", "ð", "ñ", "ò", "ó", "ô", "õ", "ö", "ø", "ù", "ú", "û", "ü", "ý", "þ">>
\* The ASCII letters, of which the spellings of the arguments are made.
AsciiLowerCase == <<"a", "b", "c", "d", "e", "f", "g", "h", "i", "j", "k", "l", "m", "n", "o", "p", "q", "r", "s", "t", "u", "v", "w", "x", "y", "z">>
AsciiUpperCase == <<"A", "B", "C", "D", "E", "F", "G", "H", "I", "J", "K", "L", "M", "N", "O", "P", "Q", "R", "S", "T", "U", "V", "W", "X", "Y", "Z">>
\* U+212A KELVIN SIGN, a non-ASCII character that str.lower() maps to "k".
KelvinSign == "\\u212a"

IndexIn(letters, c) == CHOOSE i \in 1..Len(letters) : letters[i] = c

\* str.lower() on one character of U+0000..U+00FF, on the Kelvin sign and on
\* a lone surrogate (which it leaves as it is).
lower_char(c) ==
    IF \E i \in 1..Len(UpperCaseLetters) : UpperCaseLetters[i] = c
    THEN LowerCaseLetters[IndexIn(UpperCaseLetters, c)]
    ELSE IF c = KelvinSign THEN "k" ELSE c

\* The capital of an ASCII small letter; any other character as it is.
Capital(c) ==
    IF \E i \in 1..Len(AsciiLowerCase) : AsciiLowerCase[i] = c
    THEN AsciiUpperCase[IndexIn(AsciiLowerCase, c)]
    ELSE c

\* str.lower()
lower(s) == [i \in 1..Len(s) |-> lower_char(s[i])]

RECURSIVE replace(_, _, _)
\* str.replace(old, new) for a one-character old.
replace(s, old, new) ==
    IF s = << >> THEN << >>
    ELSE (IF Head(s) = old THEN new ELSE << Head(s) >>) \o replace(Tail(s), old, new)

Digits == <<"0", "1", "2", "3", "4", "5", "6", "7", "8", "9">>
\* The %H and %M fields of strftime: two decimal digits, zero padded.
TwoDigits(n) == << Digits[(n \div 10) + 1], Digits[(n % 10) + 1] >>

\* now.strftime('%H:%M')
strftime_HM(now) == TwoDigits(now.hour) \o <<":">> \o TwoDigits(now.minute)

\* A lone surrogate code point (U+D800): a str may hold it, UTF-8 cannot encode it.
LoneSurrogate == "\\ud800"

\* print(line): sys.stdout is a UTF-8 text stream, and encoding the line
\* raises UnicodeEncodeError when it holds a lone surrogate.
Encodable(line) == \A i \in 1..Len(line) : line[i] # LoneSurrogate
\* The reason of that UnicodeEncodeError.
EncodeErrorReason == <<"s", "u", "r", "r", "o", "g", "a", "t", "e", "s", " ", "n", "o", "t", " ", "a", "l", "l", "o", "w", "e", "d">>

\* ----------------------------------------------------------- the table

NEWYORK == <<"n", "e", "w", "y", "o", "r", "k">>
LONDON == <<"l", "o", "n", "d", "o", "n">>
TOKYO == <<"t", "o", "k", "y", "o">>

\* The CITY_DATA literal.
CityTable ==
    (NEWYORK :> [display_name |-> <<"N", "e", "w", " ", "Y", "o", "r", "k">>,
                 weather_report |-> <<"T", "h", "e", " ", "w", "e", "a", "t", "h", "e", "r", " ", "i", "n", " ", "N", "e", "w", " ", "Y", "o", "r", "k", " ", "i", "s", " ", "s", "u", "n", "n", "y", " ", "w", "i", "t", "h", " ", "a", " ", "t", "e", "m", "p", "e", "r", "a", "t", "u", "r", "e", " ", "o", "f", " ", "4", "5", "°", "F", ".">>,
                 timezone |-> <<"A", "m", "e", "r", "i", "c", "a", "/", "N", "e", "w", "_", "Y", "o", "r", "k">>])
    @@ (LONDON :> [display_name |-> <<"L", "o", "n", "d", "o", "n">>,
                   weather_report |-> <<"I", "t", "'", "s", " ", "c", "l", "o", "u", "d", "y", " ", "i", "n", " ", "L", "o", "n", "d", "o", "n", " ", "w", "i", "t", "h", " ", "a", " ", "t", "e", "m", "p", "e", "r", "a", "t", "u", "r", "e", " ", "o", "f", " ", "5", "5", "°", "F", ".">>,
                   timezone |-> <<"E", "u", "r", "o", "p", "e", "/", "L", "o", "n", "d", "o", "n">>])
    @@ (TOKYO :> [display_name |-> <<"T", "o", "k", "y", "o">>,
                  weather_report |-> <<"T", "o", "k", "y", "o", " ", "i", "s", " ", "e", "x", "p", "e", "r", "i", "e", "n", "c", "i", "n", "g", " ", "l", "i", "g", "h", "t", " ", "r", "a", "i", "n", " ", "a", "n", "d", " ", "a", " ", "t", "e", "m", "p", "e", "r", "a", "t", "u", "r", "e", " ", "o", "f", " ", "7", "2", "°", "F", ".">>,
                  timezone |-> <<"A", "s", "i", "a", "/", "T", "o", "k", "y", "o">>])

\* dict.get(key): the value, or None.
dict_get(d, key) == IF key \in DOMAIN d THEN Some(d[key]) ELSE None

\* Truth value of an optional dict or str: None and the empty value are false.
Truthy(opt) == opt # None /\ DOMAIN opt[1] # {}

\* ------------------------------------------------------- environment

ENV_NAME == <<"M", "a", "p", "s", "_", "P", "L", "A", "T", "F", "O", "R", "M", "_", "A", "P", "I", "_", "K", "E", "Y">>
\* The process environments: the variable absent, set to "", set to a key.
Environments == { << >>, ENV_NAME :> <<>>, ENV_NAME :> <<"A", "I", "z", "a", "-", "k", "e", "y">> }

\* The clock advances in steps of 7 h 01 min, so that readings fall in
\* different hours and minutes, before and after local midnight.
TickMinutes == 7 * 60 + 1
MinutesPerDay == 24 * 60
Seasons == { "standard", "daylight" }
\* A successful clock read: the UTC minute of the day and the season.
ClockReadings ==
    { [ok |-> TRUE, season |-> s, minute |-> (k * TickMinutes) % MinutesPerDay] :
        s \in Seasons, k \in 0..MaxTicks }
ClockFailure == [ok |-> FALSE, season |-> "standard", minute |-> 0]
ClockOutcomes == ClockReadings \cup { ClockFailure }
ClockFailureReason == <<"[", "E", "r", "r", "n", "o", " ", "2", "2", "]", " ", "I", "n", "v", "a", "l", "i", "d", " ", "a", "r", "g", "u", "m", "e", "n", "t">>

\* What ZoneInfo(key) finds in the system timezone database.
TzOutcomes == { "found", "not_found" }
\* str(ZoneInfoNotFoundError): a KeyError, so the text is the repr of its argument.
TzNotFoundReason(key) == <<"'", "N", "o", " ", "t", "i", "m", "e", " ", "z", "o", "n", "e", " ", "f", "o", "u", "n", "d", " ", "w", "i", "t", "h", " ", "k", "e", "y", " ">> \o key \o <<"'">>

\* tz.utcoffset() in minutes, from the timezone database.
utcoffset(key, season) ==
    CASE key = <<"A", "m", "e", "r", "i", "c", "a", "/", "N", "e", "w", "_", "Y", "o", "r", "k">> -> IF season = "daylight" THEN -240 ELSE -300
      [] key = <<"E", "u", "r", "o", "p", "e", "/", "L", "o", "n", "d", "o", "n">> -> IF season = "daylight" THEN 60 ELSE 0
      [] key = <<"A", "s", "i", "a", "/", "T", "o", "k", "y", "o">> -> 540
      [] OTHER -> 0

\* datetime.datetime.now(tz): the wall-clock fields of the reading in tz.
datetime_now(tz, reading) ==
    LET local == (reading.minute + utcoffset(tz.key, reading.season) + MinutesPerDay) % MinutesPerDay
    IN [hour |-> local \div 60, minute |-> local % 60, tz |-> tz.key]


\* ---------------------------------------------------------------- state

VARIABLES
    environ,            \* os.environ, restricted to Maps_PLATFORM_API_KEY
    module_pc,          \* the statement of the module body that runs next
    Maps_API_KEY,       \* module global (line 39), None before it is bound
    exit_message,       \* the argument of sys.exit, None while the process runs
    opik_configured,    \* opik.configure() has run (line 101)
    opik_tracer,        \* module global (line 102)
    connection_params,  \* the StdioServerParameters of the maps tool service
    root_agent,         \* module global (line 104)
    CITY_DATA,          \* module global (line 17)
    frames              \* the invocation of a tool function each worker runs

vars == << environ, module_pc, Maps_API_KEY, exit_message, opik_configured,
           opik_tracer, connection_params, root_agent, CITY_DATA, frames >>

module_vars == << environ, module_pc, Maps_API_KEY, exit_message, opik_configured,
                  opik_tracer, connection_params, root_agent >>

\* The tasks of the agent runtime that call the tool functions.
Workers == { "w1", "w2" }
\* The caller of the single-call specification.
MainWorker == "w1"

\* A worker that runs no tool function.
IdleFrame ==
    [pc |-> "idle", op |-> "none", city |-> << >>, city_normalized |-> << >>,
     city_data |-> None, tz |-> None, now |-> None, display_name |-> << >>,
     report |-> << >>, e |-> None, result |-> None, raised |-> None,
     stdout |-> << >>, tz_outcome |-> "unread", clock_outcome |-> None]

\* The frame of a call get_weather(city) or get_current_time(city) at its first statement.
NewFrame(op, city) ==
    [IdleFrame EXCEPT !.pc = IF op = "get_weather" THEN "gw_print" ELSE "gt_print",
                      !.op = op, !.city = city]

\* A statement maps the frame and the module global to the frame and the global.
After(f, table) == [frame |-> f, CITY_DATA |-> table]

\* ------------------------------------------------------- get_weather

\* line 55; the statement stands outside any try block, so an exception of
\* print leaves the function.
gw_print(f, table) ==
    LET line == <<".", " ", "[", "T", "O", "O", "L", "]", " ", "\"", "g", "e", "t", "_", "w", "e", "a", "t", "h", "e", "r", "\"", " ", "-", " ", "C", "i", "t", "y", ":", " ">> \o f.city \o <<".">>
    IN After(IF Encodable(line)
             THEN [f EXCEPT !.stdout = Append(@, line), !.pc = "gw_normalize"]
             ELSE [f EXCEPT !.raised = Some(EncodeErrorReason), !.pc = "raised"],
             table)

\* Faulty variant of line 56: lower() alone, the spaces stay.
gw_normalize_lower_only(f, table) ==
    After([f EXCEPT !.city_normalized = lower(f.city), !.pc = "gw_lookup"], table)

\* line 56
gw_normalize(f, table) ==
    After([f EXCEPT !.city_normalized = replace(lower(f.city), " ", << >>),
                    !.pc = "gw_lookup"], table)

\* Faulty variant of line 58: CITY_DATA.pop(city_normalized, None) takes the record out.
gw_lookup_pop(f, table) ==
    LET found == dict_get(table, f.city_normalized)
    IN After([f EXCEPT !.city_data = found,
                       !.pc = IF Truthy(found) THEN "gw_return_report" ELSE "gw_return_error"],
             [k \in DOMAIN table \ { f.city_normalized } |-> table[k]])

\* line 58
gw_lookup(f, table) ==
    LET found == dict_get(table, f.city_normalized)
    IN After([f EXCEPT !.city_data = found,
                       !.pc = IF Truthy(found) THEN "gw_return_report" ELSE "gw_return_error"],
             table)

\* line 59
gw_return_report(f, table) ==
    After([f EXCEPT !.result = Some([status |-> "success",
                                      report |-> f.city_data[1].weather_report]),
                    !.pc = "returned"], table)

\* lines 61-64
gw_return_error(f, table) ==
    After([f EXCEPT !.result = Some([status |-> "error",
                                      error_message |->
                                          <<"S", "o", "r", "r", "y", ",", " ", "I", " ", "d", "o", "n", "'", "t", " ", "h", "a", "v", "e", " ", "w", "e", "a", "t", "h", "e", "r", " ", "i", "n", "f", "o", "r", "m", "a", "t", "i", "o", "n", " ", "f", "o", "r", " ", "'">>
                                          \o f.city \o <<"'", ".">>]),
                    !.pc = "returned"], table)

\* --------------------------------------------------- get_current_time

\* line 77; the try block begins at line 86, so an exception of print leaves
\* the function.
gt_print(f, table) ==
    LET line == <<".", " ", "[", "T", "O", "O", "L", "]", " ", "\"", "g", "e", "t", "_", "c", "u", "r", "r", "e", "n", "t", "_", "t", "i", "m", "e", "\"", " ", "-", " ", "C", "i", "t", "y", ":", " ">> \o f.city \o <<".">>
    IN After(IF Encodable(line)
             THEN [f EXCEPT !.stdout = Append(@, line), !.pc = "gt_normalize"]
             ELSE [f EXCEPT !.raised = Some(EncodeErrorReason), !.pc = "raised"],
             table)

\* line 78
gt_normalize(f, table) ==
    After([f EXCEPT !.city_normalized = replace(lower(f.city), " ", << >>),
                    !.pc = "gt_lookup"], table)

\* Faulty variant of line 80: CITY_DATA.setdefault(city_normalized, "") stores the
\* default under a key that misses.
gt_lookup_setdefault(f, table) ==
    LET stored == IF f.city_normalized \in DOMAIN table THEN table
                  ELSE table @@ (f.city_normalized :> << >>)
        found == dict_get(stored, f.city_normalized)
    IN After([f EXCEPT !.city_data = found,
                       !.pc = IF ~Truthy(found) THEN "gt_return_miss" ELSE "gt_zoneinfo"],
             stored)

\* Faulty variant of line 80: CITY_DATA.pop(city_normalized, None) takes the record out.
gt_lookup_pop(f, table) ==
    LET found == dict_get(table, f.city_normalized)
    IN After([f EXCEPT !.city_data = found,
                       !.pc = IF ~Truthy(found) THEN "gt_return_miss" ELSE "gt_zoneinfo"],
             [k \in DOMAIN table \ { f.city_normalized } |-> table[k]])

\* line 80
gt_lookup(f, table) ==
    LET found == dict_get(table, f.city_normalized)
    IN After([f EXCEPT !.city_data = found,
                       !.pc = IF ~Truthy(found) THEN "gt_return_miss" ELSE "gt_zoneinfo"],
             table)

\* lines 81-84
gt_return_miss(f, table) ==
    After([f EXCEPT !.result = Some([status |-> "error",
                                      error_message |->
                                          <<"S", "o", "r", "r", "y", ",", " ", "I", " ", "d", "o", "n", "'", "t", " ", "h", "a", "v", "e", " ", "t", "i", "m", "e", "z", "o", "n", "e", " ", "i", "n", "f", "o", "r", "m", "a", "t", "i", "o", "n", " ", "f", "o", "r", " ", "'">>
                                          \o f.city \o <<"'", ".">>]),
                    !.pc = "returned"], table)

\* line 87; an exception raised inside the try block goes to the handler of line 92.
gt_zoneinfo(f, table, tzo) ==
    LET key == f.city_data[1].timezone
    IN After(IF tzo = "found"
             THEN [f EXCEPT !.tz = Some([key |-> key]), !.tz_outcome = tzo,
                            !.pc = "gt_now"]
             ELSE [f EXCEPT !.raised = Some(TzNotFoundReason(key)), !.tz_outcome = tzo,
                            !.pc = "gt_except"],
             table)

\* Faulty variant of line 88: datetime.now(datetime.timezone.utc), the zone unused.
gt_now_utc(f, table, clk) ==
    After(IF clk.ok
          THEN [f EXCEPT !.now = Some([hour |-> clk.minute \div 60,
                                       minute |-> clk.minute % 60, tz |-> <<"U", "T", "C">>]),
                         !.clock_outcome = Some(clk), !.pc = "gt_display_name"]
          ELSE [f EXCEPT !.raised = Some(ClockFailureReason), !.clock_outcome = Some(clk),
                         !.pc = "gt_except"],
          table)

\* line 88
gt_now(f, table, clk) ==
    After(IF clk.ok
          THEN [f EXCEPT !.now = Some(datetime_now(f.tz[1], clk)), !.clock_outcome = Some(clk),
                         !.pc = "gt_display_name"]
          ELSE [f EXCEPT !.raised = Some(ClockFailureReason), !.clock_outcome = Some(clk),
                         !.pc = "gt_except"],
          table)

\* line 89
gt_display_name(f, table) ==
    After([f EXCEPT !.display_name = f.city_data[1].display_name, !.pc = "gt_format"], table)

\* line 90
gt_format(f, table) ==
    After([f EXCEPT !.report = <<"T", "h", "e", " ", "c", "u", "r", "r", "e", "n", "t", " ", "t", "i", "m", "e", " ", "i", "n", " ">> \o f.display_name \o <<" ", "i", "s", " ">>
                                \o strftime_HM(f.now[1]) \o <<".">>,
                    !.pc = "gt_return_report"], table)

\* line 91
gt_return_report(f, table) ==
    After([f EXCEPT !.result = Some([status |-> "success", report |-> f.report]),
                    !.pc = "returned"], table)

\* Faulty variant of lines 92-97: the message is returned under "report".
gt_except_with_report(f, table) ==
    After([f EXCEPT !.e = f.raised, !.raised = None,
                    !.result = Some([status |-> "error",
                                      report |->
                                          <<"C", "o", "u", "l", "d", " ", "n", "o", "t", " ", "r", "e", "t", "r", "i", "e", "v", "e", " ", "t", "i", "m", "e", " ", "f", "o", "r", " ", "'">> \o f.city
                                          \o <<"'", ".", " ", "R", "e", "a", "s", "o", "n", ":", " ">> \o f.raised[1]]),
                    !.pc = "returned"], table)

\* lines 92-97: the handler binds the exception to e and returns the error dict.
gt_except(f, table) ==
    After([f EXCEPT !.e = f.raised, !.raised = None,
                    !.result = Some([status |-> "error",
                                      error_message |->
                                          <<"C", "o", "u", "l", "d", " ", "n", "o", "t", " ", "r", "e", "t", "r", "i", "e", "v", "e", " ", "t", "i", "m", "e", " ", "f", "o", "r", " ", "'">> \o f.city
                                          \o <<"'", ".", " ", "R", "e", "a", "s", "o", "n", ":", " ">> \o f.raised[1]]),
                    !.pc = "returned"], table)

\* ------------------------------------------------------ running a call

Terminal(f) == f.pc \in { "idle", "returned", "raised" }

\* The next statement of the frame. tzo and clk are what the timezone database
\* and the clock answer, should the statement consult them.
Step(f, table, tzo, clk) ==
    CASE f.pc = "gw_print" -> gw_print(f, table)
      [] f.pc = "gw_normalize" -> gw_normalize(f, table)
      [] f.pc = "gw_lookup" -> gw_lookup(f, table)
      [] f.pc = "gw_return_report" -> gw_return_report(f, table)
      [] f.pc = "gw_return_error" -> gw_return_error(f, table)
      [] f.pc = "gt_print" -> gt_print(f, table)
      [] f.pc = "gt_normalize" -> gt_normalize(f, table)
      [] f.pc = "gt_lookup" -> gt_lookup(f, table)
      [] f.pc = "gt_return_miss" -> gt_return_miss(f, table)
      [] f.pc = "gt_zoneinfo" -> gt_zoneinfo(f, table, tzo)
      [] f.pc = "gt_now" -> gt_now(f, table, clk)
      [] f.pc = "gt_display_name" -> gt_display_name(f, table)
      [] f.pc = "gt_format" -> gt_format(f, table)
      [] f.pc = "gt_return_report" -> gt_return_report(f, table)
      [] f.pc = "gt_except" -> gt_except(f, table)
      [] OTHER -> After(f, table)

RECURSIVE Run(_, _, _, _)
\* The call run from the frame to its return, with nothing running in between.
Run(f, table, tzo, clk) ==
    IF Terminal(f) THEN After(f, table)
    ELSE LET s == Step(f, table, tzo, clk) IN Run(s.frame, s.CITY_DATA, tzo, clk)

\* get_weather(city) as one call.
get_weather(table, city) == Run(NewFrame("get_weather", city), table, "unread", ClockFailure)

\* get_current_time(city) as one call, under the given answers of the environment.
get_current_time(table, city, tzo, clk) == Run(NewFrame("get_current_time", city), table, tzo, clk)


\* --------------------------------------------------------------- inputs

RECURSIVE Decorate(_, _, _, _)
\* The word from its letter i on, with the letters at the positions caps in
\* upper case and one space in each gap of gaps (gap i - 1 lies before letter i).
Decorate(word, caps, gaps, i) ==
    IF i > Len(word) THEN (IF Len(word) \in gaps THEN <<" ">> ELSE << >>)
    ELSE (IF (i - 1) \in gaps THEN <<" ">> ELSE << >>)
         \o << IF i \in caps THEN Capital(word[i]) ELSE word[i] >>
         \o Decorate(word, caps, gaps, i + 1)

UpTo(S, n) == { X \in SUBSET S : Cardinality(X) <= n }

\* The spellings of a word: at most MaxCaps capitals and MaxSpaces spaces.
Spellings(word) ==
    { Decorate(word, caps, gaps, 1) :
        caps \in UpTo(1..Len(word), MaxCaps), gaps \in UpTo(0..Len(word), MaxSpaces) }

\* City names that differ from a table key by more than case and spaces,
\* by a character that lower() folds although it is no ASCII capital, or by
\* a code point that has no encoding.
OtherCities ==
    { <<"N", "e", "w", "-", "Y", "o", "r", "k">>, <<"t", "o", "k", "y", "o", "\t">>, <<"T", "o", "k", "y", "o", ".">>, <<"L", "O", "N", "D", "Ó", "N">>, <<"T", "ø", "k", "y", "o">>, <<"T", "Ö", "K", "Y", "O">>,
      << "t", "o", KelvinSign, "y", "o" >>, <<"t", "o", "k", "y", "o">> \o << LoneSurrogate >> }

\* The arguments of the single-call specification.
Cities ==
    UNION { Spellings(w) : w \in { NEWYORK, LONDON, TOKYO, <<"p", "a", "r", "i", "s">>, <<>> } } \cup OtherCities

\* The arguments of the concurrent specification.
ConcurrentCities ==
    { <<"N", "e", "w", " ", "Y", "o", "r", "k">>, <<" ", "T", "o", "k", "y", "o", " ">>, <<"l", "o", "n", "d", "o", "n">>, <<"P", "a", "r", "i", "s">>, <<>>, <<"t", "o", "k", "y", "o">> \o << LoneSurrogate >> }

Operations == { "get_weather", "get_current_time" }

\* ------------------------------------------------------ module start-up

ExitDiagnostic == <<"E", "r", "r", "o", "r", ":", " ", "E", "n", "v", "i", "r", "o", "n", "m", "e", "n", "t", " ", "v", "a", "r", "i", "a", "b", "l", "e", " ", "'", "M", "a", "p", "s", "_", "P", "L", "A", "T", "F", "O", "R", "M", "_", "A", "P", "I", "_", "K", "E", "Y", "'", " ", "i", "s", " ", "n", "o", "t", " ", "s", "e", "t", ".">>

Init ==
    /\ environ \in Environments
    /\ module_pc = "read_env"
    /\ Maps_API_KEY = None
    /\ exit_message = None
    /\ opik_configured = FALSE
    /\ opik_tracer = None
    /\ connection_params = None
    /\ root_agent = None
    /\ CITY_DATA = CityTable
    /\ frames = [w \in Workers |-> IdleFrame]

\* line 39: Maps_API_KEY = os.environ.get("Maps_PLATFORM_API_KEY")
ReadEnv ==
    /\ module_pc = "read_env"
    /\ Maps_API_KEY' = dict_get(environ, ENV_NAME)
    /\ module_pc' = "check_key"
    /\ UNCHANGED << environ, exit_message, opik_configured, opik_tracer,
                    connection_params, root_agent, CITY_DATA, frames >>

\* Faulty variant of lines 40-41: the diagnostic is written and the module goes on.
CheckKey_warn_only ==
    /\ module_pc = "check_key"
    /\ exit_message' = IF ~Truthy(Maps_API_KEY) THEN Some(ExitDiagnostic) ELSE exit_message
    /\ module_pc' = "configure"
    /\ UNCHANGED << environ, Maps_API_KEY, opik_configured, opik_tracer,
                    connection_params, root_agent, CITY_DATA, frames >>

\* lines 40-41: if not Maps_API_KEY: sys.exit(...)
CheckKey ==
    /\ module_pc = "check_key"
    /\ IF ~Truthy(Maps_API_KEY)
       THEN /\ exit_message' = Some(ExitDiagnostic)
            /\ module_pc' = "exited"
       ELSE /\ exit_message' = exit_message
            /\ module_pc' = "configure"
    /\ UNCHANGED << environ, Maps_API_KEY, opik_configured, opik_tracer,
                    connection_params, root_agent, CITY_DATA, frames >>

\* line 101: opik.configure(use_local=False)
OpikConfigure ==
    /\ module_pc = "configure"
    /\ opik_configured' = TRUE
    /\ module_pc' = "tracer"
    /\ UNCHANGED << environ, Maps_API_KEY, exit_message, opik_tracer,
                    connection_params, root_agent, CITY_DATA, frames >>

\* line 102: opik_tracer = OpikTracer()
MakeTracer ==
    /\ module_pc = "tracer"
    /\ opik_tracer' = Some("OpikTracer")
    /\ module_pc' = "params"
    /\ UNCHANGED << environ, Maps_API_KEY, exit_message, opik_configured,
                    connection_params, root_agent, CITY_DATA, frames >>

\* lines 122-129: the launch parameters of the maps tool service.
BuildConnectionParams ==
    /\ module_pc = "params"
    /\ connection_params' =
           Some([command |-> <<"n", "p", "x">>,
                 args |-> << <<"-", "y">>, <<"@", "m", "o", "d", "e", "l", "c", "o", "n", "t", "e", "x", "t", "p", "r", "o", "t", "o", "c", "o", "l", "/", "s", "e", "r", "v", "e", "r", "-", "g", "o", "o", "g", "l", "e", "-", "m", "a", "p", "s">> >>,
                 env |-> (<<"M", "a", "p", "s", "_", "A", "P", "I", "_", "K", "E", "Y">> :> Maps_API_KEY[1])])
    /\ module_pc' = "agent"
    /\ UNCHANGED << environ, Maps_API_KEY, exit_message, opik_configured, opik_tracer,
                    root_agent, CITY_DATA, frames >>

\* lines 104-138: root_agent = LlmAgent(...)
BuildAgent ==
    /\ module_pc = "agent"
    /\ root_agent' =
           Some([name |-> <<"w", "e", "a", "t", "h", "e", "r", "_", "t", "i", "m", "e", "_", "c", "i", "t", "y", "_", "a", "g", "e", "n", "t">>,
                 model |-> <<"g", "e", "m", "i", "n", "i", "-", "1", ".", "5", "-", "f", "l", "a", "s", "h">>,
                 tools |-> << "get_weather", "get_current_time", "MCPToolset" >>,
                 connection_params |-> connection_params[1],
                 tracer |-> opik_tracer[1]])
    /\ module_pc' = "ready"
    /\ UNCHANGED << environ, Maps_API_KEY, exit_message, opik_configured, opik_tracer,
                    connection_params, CITY_DATA, frames >>

\* ------------------------------------------------------------ tool calls

\* The agent runtime calls a tool function on a worker: the calls exist once
\* the module body has run to its end.
Invoke(w, cities) ==
    /\ module_pc = "ready"
    /\ frames[w].pc = "idle"
    /\ \E op \in Operations, city \in cities :
           frames' = [frames EXCEPT ![w] = NewFrame(op, city)]
    /\ UNCHANGED << module_vars, CITY_DATA >>

\* The worker runs the next statement of its call.
Statement(w) ==
    /\ ~Terminal(frames[w])
    /\ \E tzo \in TzOutcomes, clk \in ClockOutcomes :
           LET s == Step(frames[w], CITY_DATA, tzo, clk)
           IN /\ frames' = [frames EXCEPT ![w] = s.frame]
              /\ CITY_DATA' = s.CITY_DATA
    /\ UNCHANGED module_vars

\* The runtime takes the result and the worker is free again.
Collect(w) ==
    /\ frames[w].pc \in { "returned", "raised" }
    /\ frames' = [frames EXCEPT ![w] = IdleFrame]
    /\ UNCHANGED << module_vars, CITY_DATA >>

\* get_weather(city), run from call to return with nothing in between.
CallWeather(w) ==
    /\ module_pc = "ready"
    /\ frames[w].pc = "idle"
    /\ \E city \in Cities :
           LET s == get_weather(CITY_DATA, city)
           IN /\ frames' = [frames EXCEPT ![w] = s.frame]
              /\ CITY_DATA' = s.CITY_DATA
    /\ UNCHANGED module_vars

\* get_current_time(city), run from call to return with nothing in between.
CallTime(w) ==
    /\ module_pc = "ready"
    /\ frames[w].pc = "idle"
    /\ \E city \in Cities, tzo \in TzOutcomes, clk \in ClockOutcomes :
           LET s == get_current_time(CITY_DATA, city, tzo, clk)
           IN /\ frames' = [frames EXCEPT ![w] = s.frame]
              /\ CITY_DATA' = s.CITY_DATA
    /\ UNCHANGED module_vars

StartUp ==
    \/ ReadEnv
    \/ CheckKey
    \/ OpikConfigure
    \/ MakeTracer
    \/ BuildConnectionParams
    \/ BuildAgent

\* Concurrent calls, interleaved statement by statement.
Next ==
    \/ StartUp
    \/ \E w \in Workers : Invoke(w, ConcurrentCities)
    \/ \E w \in Workers : Statement(w)
    \/ \E w \in Workers : Collect(w)

Spec == Init /\ [][Next]_vars

\* One caller, each call atomic, over every spelling of the city names.
NextCall ==
    \/ StartUp
    \/ CallWeather(MainWorker)
    \/ CallTime(MainWorker)
    \/ Collect(MainWorker)

SpecCall == Init /\ [][NextCall]_vars


\* ----------------------------------------------------------- properties

Keys == { NEWYORK, LONDON, TOKYO }

NotSpace(c) == c # " "
\* The lookup key the data model gives a city name: its space characters
\* removed, what is left in lower case.
KeyOf(city) == lower(SelectSeq(city, NotSpace))

\* sub occurs in s as a contiguous run of characters.
Contains(s, sub) ==
    \E i \in 1..(Len(s) - Len(sub) + 1) : SubSeq(s, i, i + Len(sub) - 1) = sub

\* The calls that have ended, by a return or by an exception.
Ended == { frames[w] : w \in { v \in Workers : frames[v].pc \in { "returned", "raised" } } }
Returned == { f \in Ended : f.pc = "returned" }

IsSuccess(res) == DOMAIN res = { "status", "report" } /\ res.status = "success"
IsError(res) == DOMAIN res = { "status", "error_message" } /\ res.status = "error"

\* C1: whenever get_weather has returned for an input whose lowercased,
\* space-removed form is a table key, the result is the success dict holding
\* exactly the weather_report stored under that key, whatever the case and
\* the spaces of the input.
C1_WeatherHit ==
    \A f \in Ended :
        (f.op = "get_weather" /\ KeyOf(f.city) \in Keys)
            => /\ f.pc = "returned"
               /\ f.result = Some([status |-> "success",
                                   report |-> CityTable[KeyOf(f.city)].weather_report])

\* get_weather(" Tokyo ") has returned the Tokyo report.
C1_Witness ==
    \E f \in Returned :
        /\ f.op = "get_weather"
        /\ f.city = <<" ", "T", "o", "k", "y", "o", " ">>
        /\ f.result = Some([status |-> "success",
                            report |-> <<"T", "o", "k", "y", "o", " ", "i", "s", " ", "e", "x", "p", "e", "r", "i", "e", "n", "c", "i", "n", "g", " ", "l", "i", "g", "h", "t", " ", "r", "a", "i", "n", " ", "a", "n", "d", " ", "a", " ", "t", "e", "m", "p", "e", "r", "a", "t", "u", "r", "e", " ", "o", "f", " ", "7", "2", "°", "F", ".">>])

\* C2: whenever either function has ended for an input whose normalized
\* form is no table key (the empty string included), it has returned, not
\* raised, an error dict whose error_message contains the input as given.
C2_MissIsError ==
    \A f \in Ended :
        KeyOf(f.city) \notin Keys
            => /\ f.pc = "returned"
               /\ f.result # None
               /\ IsError(f.result[1])
               /\ Contains(f.result[1].error_message, f.city)

\* get_current_time("Par is") has returned the miss message naming "Par is".
C2_Witness ==
    \E f \in Returned :
        /\ f.op = "get_current_time"
        /\ f.city = <<"P", "a", "r", " ", "i", "s">>
        /\ f.result = Some([status |-> "error",
                            error_message |-> <<"S", "o", "r", "r", "y", ",", " ", "I", " ", "d", "o", "n", "'", "t", " ", "h", "a", "v", "e", " ", "t", "i", "m", "e", "z", "o", "n", "e", " ", "i", "n", "f", "o", "r", "m", "a", "t", "i", "o", "n", " ", "f", "o", "r", " ", "'", "P", "a", "r", " ", "i", "s", "'", ".">>])

\* The minutes a zone of the table is ahead of UTC.
ZoneOffset(zone, season) ==
    CASE zone = <<"A", "m", "e", "r", "i", "c", "a", "/", "N", "e", "w", "_", "Y", "o", "r", "k">> -> IF season = "daylight" THEN -240 ELSE -300
      [] zone = <<"E", "u", "r", "o", "p", "e", "/", "L", "o", "n", "d", "o", "n">> -> IF season = "daylight" THEN 60 ELSE 0
      [] zone = <<"A", "s", "i", "a", "/", "T", "o", "k", "y", "o">> -> 540

\* hh:mm is the 24-hour rendering of the instant in the zone.
RendersInstant(text, clk, zone) ==
    \E h \in 0..23, m \in 0..59 :
        /\ text = TwoDigits(h) \o <<":">> \o TwoDigits(m)
        /\ (h * 60 + m - clk.minute - ZoneOffset(zone, clk.season)) % MinutesPerDay = 0

\* C3: whenever get_current_time has returned after a table hit with the zone
\* found and the clock read, the result is the success dict whose report is
\* "The current time in <display_name> is HH:MM.", with the display_name of
\* the matched record and HH:MM the instant read, in 24-hour form, in the
\* zone of the matched record.
C3_TimeReport ==
    \A f \in Ended :
        (/\ f.op = "get_current_time"
         /\ KeyOf(f.city) \in Keys
         /\ f.tz_outcome = "found"
         /\ f.clock_outcome # None
         /\ f.clock_outcome[1].ok)
            => LET rec == CityTable[KeyOf(f.city)]
                   head == <<"T", "h", "e", " ", "c", "u", "r", "r", "e", "n", "t", " ", "t", "i", "m", "e", " ", "i", "n", " ">> \o rec.display_name \o <<" ", "i", "s", " ">>
               IN /\ f.pc = "returned"
                  /\ f.result # None
                  /\ IsSuccess(f.result[1])
                  /\ Len(f.result[1].report) = Len(head) + 6
                  /\ SubSeq(f.result[1].report, 1, Len(head)) = head
                  /\ f.result[1].report[Len(head) + 6] = "."
                  /\ RendersInstant(SubSeq(f.result[1].report, Len(head) + 1, Len(head) + 5),
                                    f.clock_outcome[1], rec.timezone)

\* get_current_time("toKYo") at 14:02 UTC has returned 23:02, the time in Asia/Tokyo.
C3_Witness ==
    \E f \in Returned :
        /\ f.op = "get_current_time"
        /\ f.city = <<"t", "o", "K", "Y", "o">>
        /\ f.clock_outcome = Some([ok |-> TRUE, season |-> "standard", minute |-> 842])
        /\ f.result = Some([status |-> "success",
                            report |-> <<"T", "h", "e", " ", "c", "u", "r", "r", "e", "n", "t", " ", "t", "i", "m", "e", " ", "i", "n", " ", "T", "o", "k", "y", "o", " ", "i", "s", " ", "2", "3", ":", "0", "2", ".">>])

\* The reason of the failure a call of get_current_time met after its hit.
FailureReason(f) ==
    IF f.tz_outcome = "not_found"
    THEN <<"'", "N", "o", " ", "t", "i", "m", "e", " ", "z", "o", "n", "e", " ", "f", "o", "u", "n", "d", " ", "w", "i", "t", "h", " ", "k", "e", "y", " ">> \o CityTable[KeyOf(f.city)].timezone \o <<"'">>
    ELSE <<"[", "E", "r", "r", "n", "o", " ", "2", "2", "]", " ", "I", "n", "v", "a", "l", "i", "d", " ", "a", "r", "g", "u", "m", "e", "n", "t">>

\* C4: no call ever ends by an exception; and whenever get_current_time has
\* ended after a table hit whose zone was not found or whose clock read
\* failed, the result is an error dict whose error_message contains the
\* input as given and the reason of the failure.
C4_FailureIsError ==
    \A f \in Ended :
        /\ f.pc = "returned"
        /\ f.raised = None
        /\ (/\ f.op = "get_current_time"
            /\ KeyOf(f.city) \in Keys
            /\ \/ f.tz_outcome = "not_found"
               \/ f.clock_outcome # None /\ ~f.clock_outcome[1].ok)
               => /\ f.result # None
                  /\ IsError(f.result[1])
                  /\ Contains(f.result[1].error_message, f.city)
                  /\ Contains(f.result[1].error_message, FailureReason(f))

\* get_current_time("New York") has returned the error of a zone not found.
C4_Witness ==
    \E f \in Returned :
        /\ f.op = "get_current_time"
        /\ f.city = <<"N", "e", "w", " ", "Y", "o", "r", "k">>
        /\ f.tz_outcome = "not_found"
        /\ f.result = Some([status |-> "error",
                            error_message |-> <<"C", "o", "u", "l", "d", " ", "n", "o", "t", " ", "r", "e", "t", "r", "i", "e", "v", "e", " ", "t", "i", "m", "e", " ", "f", "o", "r", " ", "'", "N", "e", "w", " ", "Y", "o", "r", "k", "'", ".", " ", "R", "e", "a", "s", "o", "n", ":", " ", "'", "N", "o", " ", "t", "i", "m", "e", " ", "z", "o", "n", "e", " ", "f", "o", "u", "n", "d", " ", "w", "i", "t", "h", " ", "k", "e", "y", " ", "A", "m", "e", "r", "i", "c", "a", "/", "N", "e", "w", "_", "Y", "o", "r", "k", "'">>])

\* C5: with Maps_PLATFORM_API_KEY absent from the environment the module never
\* gets past the credential check - the tracer is not configured, the launch
\* parameters are not built, the agent is not constructed - and it ends with
\* the diagnostic; and an agent that is constructed hands the maps tool
\* service the non-empty value the environment holds.
C5_FailFast ==
    /\ ENV_NAME \notin DOMAIN environ
           => /\ module_pc \in { "read_env", "check_key", "exited" }
              /\ ~opik_configured
              /\ opik_tracer = None
              /\ connection_params = None
              /\ root_agent = None
              /\ module_pc = "exited" => exit_message = Some(ExitDiagnostic)
              /\ module_pc # "exited" => ENABLED (ReadEnv \/ CheckKey)
    /\ root_agent # None
           => /\ ENV_NAME \in DOMAIN environ
              /\ environ[ENV_NAME] # << >>
              /\ root_agent[1].connection_params.env = (<<"M", "a", "p", "s", "_", "A", "P", "I", "_", "K", "E", "Y">> :> environ[ENV_NAME])

\* The module has exited with the diagnostic, the variable being absent.
C5_Witness ==
    /\ ENV_NAME \notin DOMAIN environ
    /\ module_pc = "exited"
    /\ exit_message = Some(ExitDiagnostic)

\* C6: every result a tool function returns is either status "success" with
\* a report and no error_message, or status "error" with an error_message
\* and no report; and a call that has returned has such a result.
C6_ResultShape ==
    \A w \in Workers :
        /\ frames[w].pc = "returned" => frames[w].result # None
        /\ frames[w].result # None
               => IsSuccess(frames[w].result[1]) \/ IsError(frames[w].result[1])

\* get_current_time has returned the error dict of a failed clock read.
C6_Witness ==
    \E f \in Returned :
        /\ f.op = "get_current_time"
        /\ f.clock_outcome # None
        /\ ~f.clock_outcome[1].ok
        /\ DOMAIN f.result[1] = { "status", "error_message" }

\* C7: the table always holds exactly the three records of the literal,
\* under the keys newyork, london and tokyo, whatever calls have run.
C7_TableUnchanged ==
    /\ DOMAIN CITY_DATA = { <<"n", "e", "w", "y", "o", "r", "k">>, <<"l", "o", "n", "d", "o", "n">>, <<"t", "o", "k", "y", "o">> }
    /\ CITY_DATA = CityTable

\* A miss of get_current_time and a hit of get_weather have both returned.
C7_Witness ==
    /\ frames["w1"].pc = "returned"
    /\ frames["w1"].op = "get_current_time"
    /\ frames["w1"].city = <<"P", "a", "r", "i", "s">>
    /\ frames["w2"].pc = "returned"
    /\ frames["w2"].op = "get_weather"
    /\ frames["w2"].city = <<"l", "o", "n", "d", "o", "n">>
    /\ CITY_DATA = CityTable

\* C8: two calls of the same function with the same input - and, for
\* get_current_time, the same clock reading - have the same result, whatever
\* ran before or between them.
C8_SameInputSameResult ==
    \A f \in Returned, g \in Returned :
        (f.op = g.op /\ f.city = g.city /\ f.clock_outcome = g.clock_outcome)
            => f.result = g.result

\* Two calls get_weather("New York") have returned, one on each worker.
C8_Witness ==
    /\ \A w \in Workers :
           /\ frames[w].pc = "returned"
           /\ frames[w].op = "get_weather"
           /\ frames[w].city = <<"N", "e", "w", " ", "Y", "o", "r", "k">>
    /\ frames["w1"].result = frames["w2"].result
    /\ IsSuccess(frames["w1"].result[1])

\* What the environment answered the call of the frame.
TzAnswer(f) == f.tz_outcome
ClockAnswer(f) == IF f.clock_outcome = None THEN ClockFailure ELSE f.clock_outcome[1]

\* C9: under every interleaving of the statements of concurrent calls, a
\* call that has ended has ended the way the same call ends when run alone
\* on the table of the literal under the same answers of the timezone
\* database and the clock - the same result, or the same exception - and the
\* table is the table of the literal.
C9_AsIfAlone ==
    /\ CITY_DATA = CityTable
    /\ \A f \in Ended :
           LET alone == Run(NewFrame(f.op, f.city), CityTable, TzAnswer(f),
                            ClockAnswer(f)).frame
           IN /\ f.pc = alone.pc
              /\ f.result = alone.result
              /\ f.raised = alone.raised

\* A call has returned its report while another is between its lookup and
\* its clock read.
C9_Witness ==
    /\ frames["w1"].pc = "returned"
    /\ frames["w1"].op = "get_current_time"
    /\ frames["w1"].city = <<" ", "T", "o", "k", "y", "o", " ">>
    /\ IsSuccess(frames["w1"].result[1])
    /\ frames["w2"].pc = "gt_now"
    /\ frames["w2"].city = <<" ", "T", "o", "k", "y", "o", " ">>

\* C10: get_weather returns success exactly when the input with its spaces
\* removed and its letters in lower case is a table key, its only other
\* result being the miss message; nothing but the space is removed, so
\* "New-York" misses in get_weather and in get_current_time.
C10_SuccessIffKey ==
    \A f \in Ended :
        /\ f.op = "get_weather"
               => /\ f.pc = "returned"
                  /\ f.result # None
                  /\ IsSuccess(f.result[1]) <=> KeyOf(f.city) \in Keys
                  /\ ~IsSuccess(f.result[1])
                         => f.result[1] =
                                [status |-> "error",
                                 error_message |->
                                     <<"S", "o", "r", "r", "y", ",", " ", "I", " ", "d", "o", "n", "'", "t", " ", "h", "a", "v", "e", " ", "w", "e", "a", "t", "h", "e", "r", " ", "i", "n", "f", "o", "r", "m", "a", "t", "i", "o", "n", " ", "f", "o", "r", " ", "'">>
                                     \o f.city \o <<"'", ".">>]
        /\ (\E c \in { "-", ".", "\t" } : \E i \in 1..Len(f.city) : f.city[i] = c)
               => /\ f.result # None
                  /\ IsError(f.result[1])

\* get_weather("New-York") has returned the miss message.
C10_Witness ==
    \E f \in Returned :
        /\ f.op = "get_weather"
        /\ f.city = <<"N", "e", "w", "-", "Y", "o", "r", "k">>
        /\ f.result = Some([status |-> "error",
                            error_message |-> <<"S", "o", "r", "r", "y", ",", " ", "I", " ", "d", "o", "n", "'", "t", " ", "h", "a", "v", "e", " ", "w", "e", "a", "t", "h", "e", "r", " ", "i", "n", "f", "o", "r", "m", "a", "t", "i", "o", "n", " ", "f", "o", "r", " ", "'", "N", "e", "w", "-", "Y", "o", "r", "k", "'", ".">>])

=============================================================================
